---- MODULE Spec2Model ----
(***************************************************************************)
(* QueryGPT Local (src/backend/app/main.py): the natural-language-to-SQL   *)
(* pipeline of QueryGPTEngine.  Texts are sequences of one-character       *)
(* strings, so that str.strip, str.split, str.upper and the re.sub calls   *)
(* of the source are computed character by character.                      *)
(***************************************************************************)
EXTENDS Integers, Sequences, FiniteSets, TLC

(***************************************************************************)
(* Python's str and re primitives, as the source uses them.                *)
(***************************************************************************)

\* the characters str.strip() removes and the regex class \s matches
Whitespace == {" ", "\t", "\n", "\r", "\f"}

LowerCase == <<"a", "b", "c", "d", "e", "f", "g", "h", "i", "j", "k", "l", "m",
               "n", "o", "p", "q", "r", "s", "t", "u", "v", "w", "x", "y", "z">>

UpperCase == <<"A", "B", "C", "D", "E", "F", "G", "H", "I", "J", "K", "L", "M",
               "N", "O", "P", "Q", "R", "S", "T", "U", "V", "W", "X", "Y", "Z">>

Digits == {"0", "1", "2", "3", "4", "5", "6", "7", "8", "9"}

\* the characters the regex class \w matches; \b is a change of this class
WordChars == {LowerCase[i] : i \in 1..26} \cup {UpperCase[i] : i \in 1..26}
                \cup Digits \cup {"_"}

upper_char(c) ==
    IF \E i \in 1..26 : LowerCase[i] = c
    THEN UpperCase[CHOOSE i \in 1..26 : LowerCase[i] = c]
    ELSE c

\* str.upper()
upper(s) == [i \in 1..Len(s) |-> upper_char(s[i])]

\* str.strip()
strip(s) ==
    LET keep == {i \in 1..Len(s) : s[i] \notin Whitespace}
    IN  IF keep = {} THEN <<>>
        ELSE SubSeq(s, CHOOSE i \in keep : \A j \in keep : i <= j,
                       CHOOSE i \in keep : \A j \in keep : j <= i)

\* str.startswith(prefix)
startswith(s, prefix) ==
    /\ Len(prefix) <= Len(s)
    /\ \A k \in 1..Len(prefix) : s[k] = prefix[k]

\* p occurs in s at index i
occurs_at(s, p, i) ==
    /\ i >= 1
    /\ i + Len(p) - 1 <= Len(s)
    /\ \A k \in 1..Len(p) : s[i + k - 1] = p[k]

\* as occurs_at, ignoring case: a literal under the (?i) flag
occurs_at_nocase(s, p, i) ==
    /\ i >= 1
    /\ i + Len(p) - 1 <= Len(s)
    /\ \A k \in 1..Len(p) : upper_char(s[i + k - 1]) = upper_char(p[k])

\* str.find(p, start), 1-based, 0 when p does not occur at or after start
find(s, p, start) ==
    LET hits == {i \in start..(Len(s) - Len(p) + 1) : occurs_at(s, p, i)}
    IN  IF hits = {} THEN 0 ELSE CHOOSE i \in hits : \A j \in hits : i <= j

\* `p in s`
contains(s, p) == find(s, p, 1) # 0

RECURSIVE replace(_, _, _)
\* str.replace(old, new): the non-overlapping occurrences, left to right
replace(s, old, new) ==
    LET i == find(s, old, 1)
    IN  IF i = 0 THEN s
        ELSE SubSeq(s, 1, i - 1) \o new
               \o replace(SubSeq(s, i + Len(old), Len(s)), old, new)

RECURSIVE split(_, _)
\* str.split(sep): always at least one piece
split(s, sep) ==
    LET i == find(s, sep, 1)
    IN  IF i = 0 THEN <<s>>
        ELSE <<SubSeq(s, 1, i - 1)>> \o split(SubSeq(s, i + Len(sep), Len(s)), sep)

RECURSIVE join(_, _)
\* sep.join(parts)
join(sep, parts) ==
    IF parts = <<>> THEN <<>>
    ELSE IF Len(parts) = 1 THEN parts[1]
    ELSE parts[1] \o sep \o join(sep, Tail(parts))

(***************************************************************************)
(* QueryGPTEngine._extract_sql_query (main.py 126-170).                    *)
(***************************************************************************)

\* the backquote character (U+0060), which a TLA+ string cannot hold
BQ == "<backquote>"

\* the code-fence delimiter: three backquotes
Fence == <<BQ, BQ, BQ>>

RECURSIVE strip_fences(_)
\* line 130: re.sub(FENCE [\s\S]*? FENCE, lambda m: m.group(0).replace(FENCE, "").strip(), text)
\* where FENCE is three backquotes; the lazy body ends at the first fence after
\* the opening one, and the scan goes on after the match
strip_fences(text) ==
    LET a == find(text, Fence, 1)
        b == IF a = 0 THEN 0 ELSE find(text, Fence, a + Len(Fence))
    IN  IF b = 0 THEN text
        ELSE SubSeq(text, 1, a - 1)
               \o strip(replace(SubSeq(text, a, b + Len(Fence) - 1), Fence, <<>>))
               \o strip_fences(SubSeq(text, b + Len(Fence), Len(text)))

\* line 133
sql_keywords == <<<<"S", "E", "L", "E", "C", "T">>,
                  <<"W", "I", "T", "H">>,
                  <<"I", "N", "S", "E", "R", "T">>,
                  <<"U", "P", "D", "A", "T", "E">>,
                  <<"D", "E", "L", "E", "T", "E">>>>

\* line 143: any(line.upper().startswith(keyword) for keyword in sql_keywords)
starts_with_keyword(line) ==
    \E k \in 1..Len(sql_keywords) : startswith(upper(line), sql_keywords[k])

RECURSIVE collect_sql_lines(_, _, _)
\* lines 139-151: the loop over the lines, with found_sql and sql_lines
collect_sql_lines(lines, found_sql, sql_lines) ==
    IF lines = <<>> THEN sql_lines
    ELSE LET line == strip(Head(lines))
         IN  IF ~found_sql
             THEN IF starts_with_keyword(line)
                  THEN collect_sql_lines(Tail(lines), TRUE, Append(sql_lines, line))
                  ELSE collect_sql_lines(Tail(lines), FALSE, sql_lines)
             ELSE IF /\ line # <<>>
                     /\ ~startswith(line, <<"-", "-">>)
                     /\ ~startswith(line, <<"#">>)
                  THEN collect_sql_lines(Tail(lines), TRUE, Append(sql_lines, line))
                  ELSE IF line = <<>>
                       THEN sql_lines
                       ELSE collect_sql_lines(Tail(lines), TRUE, sql_lines)

\* line 156: re.sub(r';+$', ';', sql_query); $ is the end of the text or the
\* place before a newline that ends it
collapse_semicolons(s) ==
    LET last == IF Len(s) > 0 /\ s[Len(s)] = "\n" THEN Len(s) - 1 ELSE Len(s)
        run  == {i \in 1..last : \A j \in i..last : s[j] = ";"}
    IN  IF run = {} THEN s
        ELSE SubSeq(s, 1, (CHOOSE i \in run : \A j \in run : i <= j) - 1)
               \o <<";">> \o SubSeq(s, last + 1, Len(s))

\* \b before index i, where s[i] is a word character
word_starts_at(s, i) == i = 1 \/ s[i - 1] \notin WordChars

\* the first index at or after i that holds no whitespace (Len(s) + 1 if none)
skip_whitespace(s, i) ==
    LET rest == {j \in i..Len(s) : s[j] \notin Whitespace}
    IN  IF rest = {} THEN Len(s) + 1 ELSE CHOOSE j \in rest : \A k \in rest : j <= k

\* the index of "(" when (?i)\bNAME\s*\( matches at i, else 0
call_opens_at(s, name, i) ==
    IF word_starts_at(s, i) /\ occurs_at_nocase(s, name, i)
    THEN LET q == skip_whitespace(s, i + Len(name))
         IN  IF q <= Len(s) /\ s[q] = "(" THEN q ELSE 0
    ELSE 0

\* the index of ")" when \(\s*([^)]+?)\s*\) matches with "(" at q, else 0:
\* the first ")" after q, with at least one character before it
arg_closes_at(s, q) ==
    LET close == find(s, <<")">>, q + 1)
    IN  IF close > q + 1 THEN close ELSE 0

\* group 1 of \s*([^)]+?)\s* over the text between the parentheses: the text
\* without the whitespace around it, or its last character if it is all whitespace
arg_group(inner) ==
    IF strip(inner) = <<>> THEN <<inner[Len(inner)]>> ELSE strip(inner)

\* the index of ")" when (?i)\bNAME\s*\(\s*([^)]+?)\s*\) matches at i, else 0
date_part_match(s, name, i) ==
    LET q == call_opens_at(s, name, i)
    IN  IF q = 0 THEN 0 ELSE arg_closes_at(s, q)

\* the index of ")" when (?i)\bNAME\s*\(\s*\) matches at i, else 0
no_arg_match(s, name, i) ==
    LET q     == call_opens_at(s, name, i)
        close == IF q = 0 THEN 0 ELSE skip_whitespace(s, q + 1)
    IN  IF q # 0 /\ close <= Len(s) /\ s[close] = ")" THEN close ELSE 0

\* the least element of a non-empty set of indices
least(S) == CHOOSE i \in S : \A j \in S : i <= j

RECURSIVE sub_date_part(_, _, _, _)
\* lines 160-162: re.sub(r"(?i)\bNAME\s*\(\s*([^)]+?)\s*\)", r"strftime('%F', \1)", s),
\* from index i on: the leftmost match, then the scan goes on after it
sub_date_part(s, name, fmt, i) ==
    LET starts == {p \in i..Len(s) : date_part_match(s, name, p) # 0}
    IN  IF starts = {} THEN SubSeq(s, i, Len(s))
        ELSE LET p     == least(starts)
                 q     == call_opens_at(s, name, p)
                 close == date_part_match(s, name, p)
             IN  SubSeq(s, i, p - 1)
                   \o <<"s", "t", "r", "f", "t", "i", "m", "e", "(", "'", "%">> \o fmt \o <<"'", ",", " ">>
                   \o arg_group(SubSeq(s, q + 1, close - 1)) \o <<")">>
                   \o sub_date_part(s, name, fmt, close + 1)

RECURSIVE sub_no_arg_call(_, _, _, _)
\* lines 163-165: re.sub(r"(?i)\bNAME\s*\(\s*\)", repl, s), from index i on
sub_no_arg_call(s, name, repl, i) ==
    LET starts == {p \in i..Len(s) : no_arg_match(s, name, p) # 0}
    IN  IF starts = {} THEN SubSeq(s, i, Len(s))
        ELSE LET p == least(starts)
             IN  SubSeq(s, i, p - 1) \o repl
                   \o sub_no_arg_call(s, name, repl, no_arg_match(s, name, p) + 1)

\* lines 160-165: the six substitutions, in order
rewrite_date_functions(sql_query) ==
    LET s1 == sub_date_part(sql_query, <<"Y", "E", "A", "R">>, <<"Y">>, 1)
        s2 == sub_date_part(s1, <<"M", "O", "N", "T", "H">>, <<"m">>, 1)
        s3 == sub_date_part(s2, <<"D", "A", "Y">>, <<"d">>, 1)
        s4 == sub_no_arg_call(s3, <<"N", "O", "W">>, <<"C", "U", "R", "R", "E", "N", "T", "_", "T", "I", "M", "E", "S", "T", "A", "M", "P">>, 1)
        s5 == sub_no_arg_call(s4, <<"C", "U", "R", "D", "A", "T", "E">>, <<"D", "A", "T", "E", "(", "'", "n", "o", "w", "'", ")">>, 1)
    IN  sub_no_arg_call(s5, <<"G", "E", "T", "D", "A", "T", "E">>, <<"C", "U", "R", "R", "E", "N", "T", "_", "T", "I", "M", "E", "S", "T", "A", "M", "P">>, 1)

\* lines 126-170
_extract_sql_query(raw) ==
    LET text      == strip_fences(strip(raw))
        lines     == split(text, <<"\n">>)
        sql_lines == collect_sql_lines(lines, FALSE, <<>>)
        joined    == join(<<" ">>, sql_lines)
        sql_query == rewrite_date_functions(strip(collapse_semicolons(joined)))
    IN  IF sql_query = <<>> THEN text ELSE sql_query

(***************************************************************************)
(* The database file database/querygpt.db, as the scripts under            *)
(* src/database build it, and QueryGPTEngine._get_schema_info.             *)
(***************************************************************************)

\* a row of PRAGMA table_info: name, declared type, notnull, pk
column(col_name, col_type, not_null, pk) ==
    [col_name |-> col_name, col_type |-> col_type, not_null |-> not_null, pk |-> pk]

\* setup_database.py 13-61: the four CREATE TABLE statements
customers_columns ==
    << column("customer_id", "INTEGER", FALSE, TRUE),
       column("first_name", "TEXT", TRUE, FALSE),
       column("last_name", "TEXT", TRUE, FALSE),
       column("email", "TEXT", TRUE, FALSE),
       column("registration_date", "DATE", FALSE, FALSE),
       column("country", "TEXT", FALSE, FALSE),
       column("city", "TEXT", FALSE, FALSE),
       column("is_active", "BOOLEAN", FALSE, FALSE) >>

products_columns ==
    << column("product_id", "INTEGER", FALSE, TRUE),
       column("product_name", "TEXT", TRUE, FALSE),
       column("category", "TEXT", TRUE, FALSE),
       column("price", "DECIMAL(10,2)", TRUE, FALSE),
       column("cost", "DECIMAL(10,2)", TRUE, FALSE),
       column("description", "TEXT", FALSE, FALSE),
       column("created_date", "DATE", FALSE, FALSE) >>

orders_columns ==
    << column("order_id", "INTEGER", FALSE, TRUE),
       column("customer_id", "INTEGER", FALSE, FALSE),
       column("order_date", "DATE", TRUE, FALSE),
       column("total_amount", "DECIMAL(10,2)", TRUE, FALSE),
       column("status", "TEXT", TRUE, FALSE),
       column("shipping_country", "TEXT", FALSE, FALSE) >>

order_items_columns ==
    << column("item_id", "INTEGER", FALSE, TRUE),
       column("order_id", "INTEGER", FALSE, FALSE),
       column("product_id", "INTEGER", FALSE, FALSE),
       column("quantity", "INTEGER", TRUE, FALSE),
       column("unit_price", "DECIMAL(10,2)", TRUE, FALSE) >>

\* setup_database.py 73-123: the first row of each table, in storage order
first_rows ==
    << <<"1", "John", "Smith", "john.smith@email.com", "2023-01-15", "USA", "New York", "1">>,
       <<"1", "Laptop Pro 15\"", "Electronics", "1299.99", "800.0", "High-performance laptop", "2023-01-01">>,
       <<"1", "1", "2023-06-01", "1499.98", "completed", "USA">>,
       <<"1", "1", "1", "1", "1299.99">> >>

\* the states of the database file: just created by sqlite3.connect (no table),
\* after create_database, after populate_sample_data, after add_extended_data
DbStates == {"empty", "created", "seeded", "extended"}

\* sqlite_master and the tables' contents in a state of the file: each table
\* with its columns and the first of its rows (add_more_data.py adds the rows
\* 6 and up, so the first row stays)
catalog(d) ==
    IF d = "empty" THEN <<>>
    ELSE LET names == <<"customers", "products", "orders", "order_items">>
             cols  == <<customers_columns, products_columns, orders_columns,
                        order_items_columns>>
         IN  [i \in 1..4 |->
                 [table_name  |-> names[i],
                  columns     |-> cols[i],
                  sample_data |-> IF d = "created" THEN <<>> ELSE <<first_rows[i]>>]]

RECURSIVE describe_columns(_)
\* lines 61-68
describe_columns(columns) ==
    IF columns = <<>> THEN <<>>
    ELSE LET col == Head(columns)
         IN  << <<"  - ", col.col_name, " (", col.col_type, ")">>
                  \o (IF col.pk THEN <<" [PRIMARY KEY]">> ELSE <<>>)
                  \o (IF col.not_null THEN <<" [NOT NULL]">> ELSE <<>>)
                  \o <<"\n">> >>
               \o describe_columns(Tail(columns))

RECURSIVE describe_tables(_)
\* lines 54-76
describe_tables(tables) ==
    IF tables = <<>> THEN <<>>
    ELSE LET t == Head(tables)
         IN  << <<"Table: ", t.table_name, "\n">> >>
               \o describe_columns(t.columns)
               \o (IF t.sample_data # <<>>
                   THEN << <<"  Sample data: ", t.sample_data[1], "\n">> >>
                   ELSE <<>>)
               \o << <<"\n">> >>
               \o describe_tables(Tail(tables))

\* lines 43-79: the schema description, a sequence of text pieces
_get_schema_info(d) ==
    << <<"Database Schema:\n\n">> >> \o describe_tables(catalog(d))

(***************************************************************************)
(* The engine and its requests.                                            *)
(***************************************************************************)

\* process_query calls the server can be given at a time
NumRequests == 2

\* rows a statement returns, at most
MaxRows == 2

\* the time a call takes, in clock ticks, at most
MaxElapsed == 1

Requests == 1..NumRequests

\* QueryRequest.query
Questions == {"Show me all customers from the USA"}

\* result['response']: texts the completion service can return
RawTexts ==
    { <<"S", "E", "L", "E", "C", "T", " ", "a", ";">>,
      <<"S", "E", "L", "E", "C", "T", " ", "a">>,
      <<"S", "u", "r", "e", "!", "\n", BQ, BQ, BQ, "s", "q", "l", "\n", "S", "E", "L", "E", "C", "T", " ", "a", ";", "\n", BQ, BQ, BQ, "\n">>,
      <<"s", "e", "l", "e", "c", "t", " ", "a", ";", " ", "D", "R", "O", "P", " ", "T", "A", "B", "L", "E", " ", "t", ";">>,
      <<"S", "E", "L", "E", "C", "T", " ", "Y", "E", "A", "R", "(", "d", ")", " ", "F", "R", "O", "M", " ", "o">>,
      <<"D", "E", "L", "E", "T", "E", " ", "F", "R", "O", "M", " ", "c", "u", "s", "t", "o", "m", "e", "r", "s", ";", " ", "S", "E", "L", "E", "C", "T", " ", "1", ";">>,
      <<"W", "I", "T", "H", " ", "c", " ", "A", "S", " ", "(", "S", "E", "L", "E", "C", "T", " ", "1", ")", " ", "S", "E", "L", "E", "C", "T", " ", "a", " ", "F", "R", "O", "M", " ", "c">>,
      <<"I", "N", "S", "E", "R", "T", " ", "I", "N", "T", "O", " ", "t", " ", "V", "A", "L", "U", "E", "S", " ", "(", "1", ")">>,
      <<"U", "P", "D", "A", "T", "E", " ", "t", " ", "S", "E", "T", " ", "a", " ", "=", " ", "1">>,
      <<"I", " ", "c", "a", "n", "n", "o", "t", " ", "a", "n", "s", "w", "e", "r", " ", "t", "h", "a", "t", ".">>,
      <<>> }

\* requests.exceptions.RequestException: no connection, the 60 s timeout, and
\* raise_for_status on a non-success status
RequestExceptions == {"ConnectionError", "Timeout", "HTTPError"}

\* an exception of lines 112-120 that is no RequestException: a reply without
\* the 'response' key
OtherExceptions == {"KeyError"}

\* messages of the sqlite3 errors cursor.execute raises
DbErrors == {"no such table: t", "near \"FROM\": syntax error"}

\* dict(row) of a returned row
Rows == {[a |-> "1"]}

\* cursor.fetchall(): the rows, in the order the database returns them
ResultSets == UNION {[1..n -> Rows] : n \in 0..MaxRows}

VARIABLES
    db,            \* the state of the database file
    schema_info,   \* QueryGPTEngine.schema_info
    req,           \* the process_query calls: locals, position, outcome
    loop,          \* the request the event loop is running (0: none)
    open_conns,    \* connections _execute_sql_query holds open
    schema_reply,  \* what GET /api/schema last returned
    health_reply,  \* what GET /api/health last returned
    text,          \* the text _extract_sql_query or the rewrite is applied to
    inner,         \* the statement inside the text's code fence, if built so
    once,          \* the function's result on text
    twice,         \* the function's result on its own result
    stage          \* how far the function has been applied

vars == <<db, schema_info, req, loop, open_conns, schema_reply,
          health_reply, text, inner, once, twice, stage>>

engine_vars == <<db, schema_info, req, loop, open_conns, schema_reply, health_reply>>

fn_vars == <<text, inner, once, twice, stage>>

NoException == [type |-> "None"]

\* HTTPException(status_code=..., detail=...)
HTTPException(status_code, detail) ==
    [type |-> "HTTPException", status_code |-> status_code, detail |-> detail]

\* str(e) at lines 200 and 241: the message of a ValueError or a sqlite3 error,
\* and "<status_code>: <detail>" for an HTTPException (starlette's __str__)
str_exception(e) ==
    IF e.type = "HTTPException"
    THEN <<(IF e.status_code = 400 THEN "400" ELSE "500"), ": ">> \o e.detail
    ELSE e.msg

\* a process_query call that has not started
idle_request ==
    [pc             |-> "idle",
     natural_query  |-> "",
     sql_query      |-> <<>>,
     results        |-> <<>>,
     row_count      |-> 0,
     exc            |-> NoException,
     conn           |-> FALSE,
     executed       |-> <<>>,
     log            |-> <<>>,
     response       |-> <<>>,
     raised         |-> <<>>]

\* is_select with the keyword looked for anywhere in the statement
is_select_anywhere(sql_query) == contains(upper(strip(sql_query)), <<"S", "E", "L", "E", "C", "T">>)

\* line 180: sql_query.strip().upper().startswith('SELECT')
is_select(sql_query) == startswith(upper(strip(sql_query)), <<"S", "E", "L", "E", "C", "T">>)

\* sanitize_sql without the cut at the first terminator
sanitize_sql_uncut(sql_query) == strip(sql_query)

\* lines 182-187
sanitize_sql(sql_query) ==
    LET s == strip(sql_query)
    IN  IF contains(s, <<";">>) THEN split(s, <<";">>)[1] ELSE s

\* lines 205-212: the explanation, a sequence of text pieces
_generate_explanation(natural_query, sql_query, results) ==
    <<"I converted your question '", natural_query,
      "' into the following SQL query:\n\n", sql_query, "\n\n",
      "This query returned ", Len(results), " rows.\n">>
      \o (IF results # <<>>
          THEN <<"It likely selects, filters, and aggregates data as per your question.\n">>
          ELSE <<>>)

\* lines 38-41 and 244: the engine as constructed at import, over the database
\* file as it is then; no request has come in
Init ==
    /\ db \in DbStates
    /\ schema_info = _get_schema_info(db)
    /\ req = [r \in Requests |-> idle_request]
    /\ loop = 0
    /\ open_conns = 0
    /\ schema_reply = <<>>
    /\ health_reply = <<>>
    /\ text = <<>>
    /\ inner = <<>>
    /\ once = <<>>
    /\ twice = <<>>
    /\ stage = "engine"

\* lines 246-249 and 214-219: POST /api/query starts process_query; the
\* coroutine never awaits, so it holds the event loop until it ends
process_query_begin(r) ==
    /\ loop = 0
    /\ req[r].pc = "idle"
    /\ \E q \in Questions :
          req' = [req EXCEPT ![r].pc = "generate",
                             ![r].natural_query = q]
    /\ loop' = r
    /\ UNCHANGED <<db, schema_info, open_conns, schema_reply, health_reply, fn_vars>>

\* _generate_sql_with_ollama posting again after a RequestException
_generate_sql_with_ollama_retry(r) ==
    /\ req[r].pc = "generate"
    /\ \/ \E t \in RawTexts :
             req' = [req EXCEPT ![r].pc = "connect",
                                ![r].sql_query = _extract_sql_query(t),
                                ![r].log = Append(@, "post")]
       \/ \E e \in RequestExceptions :
             req' = [req EXCEPT ![r].log = @ \o <<"post", "generation_failed">>]
    /\ UNCHANGED <<db, schema_info, loop, open_conns, schema_reply, health_reply, fn_vars>>

\* lines 81-124 (called at 221): one requests.post, then the extraction
_generate_sql_with_ollama(r) ==
    /\ req[r].pc = "generate"
    /\ \/ \E t \in RawTexts :
             req' = [req EXCEPT ![r].pc = "connect",
                                ![r].sql_query = _extract_sql_query(t),
                                ![r].log = Append(@, "post")]
       \/ \E e \in RequestExceptions :
             req' = [req EXCEPT ![r].pc = "except",
                                ![r].exc = HTTPException(500, <<"Failed to generate SQL query">>),
                                ![r].log = @ \o <<"post", "generation_failed">>]
       \/ \E e \in OtherExceptions :
             req' = [req EXCEPT ![r].pc = "except",
                                ![r].exc = [type |-> e, msg |-> <<"'response'">>],
                                ![r].log = @ \o <<"post", "generation_failed">>]
    /\ UNCHANGED <<db, schema_info, loop, open_conns, schema_reply, health_reply, fn_vars>>

\* lines 174-176 (called at 224): the connection is opened before the try
execute_connect(r) ==
    /\ req[r].pc = "connect"
    /\ req' = [req EXCEPT ![r].pc = "check",
                          ![r].conn = TRUE,
                          ![r].log = Append(@, "connect")]
    /\ open_conns' = open_conns + 1
    /\ UNCHANGED <<db, schema_info, loop, schema_reply, health_reply, fn_vars>>

\* lines 178-181: the security check
execute_check(r) ==
    /\ req[r].pc = "check"
    /\ IF ~is_select(req[r].sql_query)
       THEN req' = [req EXCEPT ![r].pc = "guard_except",
                               ![r].exc = [type |-> "ValueError",
                                           msg  |-> <<"Only SELECT queries are allowed">>],
                               ![r].log = Append(@, "reject")]
       ELSE req' = [req EXCEPT ![r].pc = "execute"]
    /\ UNCHANGED <<db, schema_info, loop, open_conns, schema_reply, health_reply, fn_vars>>

\* lines 182-196: the statement is cut and sent; the database answers with an
\* error or with rows
execute_statement(r) ==
    /\ req[r].pc = "execute"
    /\ LET sql_query_sanitized == sanitize_sql(req[r].sql_query)
       IN  \/ \E m \in DbErrors :
                req' = [req EXCEPT ![r].pc = "guard_except",
                                   ![r].executed = Append(@, sql_query_sanitized),
                                   ![r].exc = [type |-> "sqlite3.OperationalError",
                                               msg  |-> <<m>>],
                                   ![r].log = @ \o <<"execute", "db_error">>]
           \/ \E rows \in ResultSets :
                req' = [req EXCEPT ![r].pc = "guard_finally",
                                   ![r].executed = Append(@, sql_query_sanitized),
                                   ![r].results = rows,
                                   ![r].row_count = Len(rows),
                                   ![r].log = @ \o <<"execute", "fetch">>]
    /\ UNCHANGED <<db, schema_info, loop, open_conns, schema_reply, health_reply, fn_vars>>

\* lines 198-200
execute_except(r) ==
    /\ req[r].pc = "guard_except"
    /\ req' = [req EXCEPT ![r].pc = "guard_finally",
                          ![r].exc = HTTPException(400, <<"SQL execution failed: ">>
                                                          \o str_exception(req[r].exc))]
    /\ UNCHANGED <<db, schema_info, loop, open_conns, schema_reply, health_reply, fn_vars>>

\* execute_finally closing the connection on the successful path only
execute_finally_leak(r) ==
    /\ req[r].pc = "guard_finally"
    /\ IF req[r].exc = NoException
       THEN /\ req' = [req EXCEPT ![r].pc = "explain",
                                  ![r].conn = FALSE,
                                  ![r].log = Append(@, "close")]
            /\ open_conns' = open_conns - 1
       ELSE /\ req' = [req EXCEPT ![r].pc = "except"]
            /\ open_conns' = open_conns
    /\ UNCHANGED <<db, schema_info, loop, schema_reply, health_reply, fn_vars>>

\* lines 202-203: conn.close(), then the return or the raise goes on
execute_finally(r) ==
    /\ req[r].pc = "guard_finally"
    /\ req' = [req EXCEPT ![r].pc = IF req[r].exc = NoException THEN "explain" ELSE "except",
                          ![r].conn = FALSE,
                          ![r].log = Append(@, "close")]
    /\ open_conns' = open_conns - 1
    /\ UNCHANGED <<db, schema_info, loop, schema_reply, health_reply, fn_vars>>

\* lines 226-237: the explanation, the elapsed time and the QueryResponse;
\* time.time() - start_time (lines 217, 229) is the time the call took
process_query_return(r) ==
    /\ req[r].pc = "explain"
    /\ \E elapsed \in 0..MaxElapsed :
       req' = [req EXCEPT
                 ![r].pc = "done",
                 ![r].log = Append(@, "return"),
                 ![r].response =
                     << [sql_query      |-> req[r].sql_query,
                         results        |-> req[r].results,
                         explanation    |-> _generate_explanation(req[r].natural_query,
                                                req[r].sql_query, req[r].results),
                         row_count      |-> req[r].row_count,
                         execution_time |-> elapsed] >>]
    /\ UNCHANGED <<db, schema_info, loop, open_conns, schema_reply, health_reply, fn_vars>>

\* process_query_except answering with an empty QueryResponse
process_query_except_degraded(r) ==
    /\ req[r].pc = "except"
    /\ req' = [req EXCEPT ![r].pc = "done",
                          ![r].log = Append(@, "return"),
                          ![r].response =
                              << [sql_query      |-> req[r].sql_query,
                                  results        |-> <<>>,
                                  explanation    |-> <<>>,
                                  row_count      |-> 0,
                                  execution_time |-> 0] >>]
    /\ UNCHANGED <<db, schema_info, loop, open_conns, schema_reply, health_reply, fn_vars>>

\* lines 239-241: every exception of the try, the HTTPExceptions raised at 124
\* and 200 included, is raised again as a 500
process_query_except(r) ==
    /\ req[r].pc = "except"
    /\ req' = [req EXCEPT ![r].pc = "done",
                          ![r].log = Append(@, "raise"),
                          ![r].raised = <<HTTPException(500, str_exception(req[r].exc))>>]
    /\ UNCHANGED <<db, schema_info, loop, open_conns, schema_reply, health_reply, fn_vars>>

\* line 249: the endpoint hands the QueryResponse or the exception to the HTTP
\* layer; the call's frame is gone and the event loop is free
process_query_end(r) ==
    /\ req[r].pc = "done"
    /\ req' = [req EXCEPT ![r] = idle_request]
    /\ loop' = 0
    /\ UNCHANGED <<db, schema_info, open_conns, schema_reply, health_reply, fn_vars>>

\* get_schema describing the database anew on every call
get_schema_fresh ==
    /\ loop = 0
    /\ schema_reply' = <<[schema |-> _get_schema_info(db)]>>
    /\ UNCHANGED <<db, schema_info, req, loop, open_conns, health_reply, fn_vars>>

\* lines 251-254
get_schema ==
    /\ loop = 0
    /\ schema_reply' = <<[schema |-> schema_info]>>
    /\ UNCHANGED <<db, schema_info, req, loop, open_conns, health_reply, fn_vars>>

\* lines 256-259
health_check ==
    /\ loop = 0
    /\ health_reply' = <<[status |-> "healthy", timestamp |-> "2024-01-01T00:00:00Z"]>>
    /\ UNCHANGED <<db, schema_info, req, loop, open_conns, schema_reply, fn_vars>>

\* setup_database.py 7-66, run while the service is up
create_database ==
    /\ db = "empty"
    /\ db' = "created"
    /\ UNCHANGED <<schema_info, req, loop, open_conns, schema_reply, health_reply, fn_vars>>

\* setup_database.py 68-129
populate_sample_data ==
    /\ db = "created"
    /\ db' = "seeded"
    /\ UNCHANGED <<schema_info, req, loop, open_conns, schema_reply, health_reply, fn_vars>>

\* add_more_data.py 5-67
add_extended_data ==
    /\ db = "seeded"
    /\ db' = "extended"
    /\ UNCHANGED <<schema_info, req, loop, open_conns, schema_reply, health_reply, fn_vars>>

Next ==
    \/ \E r \in Requests :
          \/ process_query_begin(r)
          \/ _generate_sql_with_ollama(r)
          \/ execute_connect(r)
          \/ execute_check(r)
          \/ execute_statement(r)
          \/ execute_except(r)
          \/ execute_finally(r)
          \/ process_query_return(r)
          \/ process_query_except(r)
          \/ process_query_end(r)
    \/ get_schema
    \/ health_check
    \/ create_database
    \/ populate_sample_data
    \/ add_extended_data

Spec == Init /\ [][Next]_vars

(***************************************************************************)
(* _extract_sql_query and the date-function rewrite as functions: applied  *)
(* to a text, and to their own result.                                     *)
(***************************************************************************)

\* pieces a text is put together from, at most
MaxPieces == 4

\* date-function calls inside one another, at most
MaxDepth == 2

Pieces == {<<"S", "E", "L", "E", "C", "T", " ", "a">>, <<"x">>, <<" ">>, <<"\n">>, <<";">>, Fence, <<"-", "-", " ", "c">>}

RECURSIVE texts_of(_)
\* the texts of at most n pieces
texts_of(n) ==
    IF n = 0 THEN {<<>>}
    ELSE LET shorter == texts_of(n - 1)
         IN  shorter \cup {s \o p : s \in shorter, p \in Pieces}

\* what a completion puts before and after a code fence, the fence's language
\* tag, and the statement in it
Preambles == {<<>>, <<"S", "u", "r", "e", "!", " ", "H", "e", "r", "e", "'", "s", " ", "t", "h", "e", " ", "q", "u", "e", "r", "y", ":", "\n">>, <<"H", "e", "r", "e", " ", "y", "o", "u", " ", "g", "o", ".", "\n", "\n">>}

Postambles == {<<>>, <<"\n">>, <<"\n", "T", "h", "i", "s", " ", "r", "e", "t", "u", "r", "n", "s", " ", "e", "v", "e", "r", "y", " ", "r", "o", "w", ".">>, <<"\n", "\n", "T", "h", "i", "s", " ", "r", "e", "t", "u", "r", "n", "s", " ", "e", "v", "e", "r", "y", " ", "r", "o", "w", ".">>}

Tags == {<<>>, <<"s", "q", "l">>}

Statements == {<<"S", "E", "L", "E", "C", "T", " ", "a", ";">>, <<"S", "E", "L", "E", "C", "T", " ", "a">>, <<"S", "E", "L", "E", "C", "T", " ", "a", "\n", "F", "R", "O", "M", " ", "t", ";", ";">>, <<"S", "E", "L", "E", "C", "T", " ", "a", "\n", "F", "R", "O", "M", " ", "t", "\n", "W", "H", "E", "R", "E", " ", "b", " ", "=", " ", "1">>}

\* a completion with one fenced block that holds the statement alone
fenced(pre, tag, stmt, post) ==
    pre \o Fence \o tag \o <<"\n">> \o stmt \o <<"\n">> \o Fence \o post

RECURSIVE date_exprs(_)
\* expressions with date-function calls nested at most d deep
date_exprs(d) ==
    IF d = 0 THEN {<<"a">>, <<"N", "O", "W", "(", ")">>, <<"c", "u", "r", "d", "a", "t", "e", "(", " ", ")">>, <<"G", "E", "T", "D", "A", "T", "E", " ", "(", ")">>}
    ELSE LET args == date_exprs(d - 1)
         IN  args \cup {f \o <<"(">> \o e \o <<")">> :
                           f \in {<<"Y", "E", "A", "R">>, <<"m", "o", "n", "t", "h">>, <<"D", "a", "y", " ">>}, e \in args}

InitFunction ==
    /\ db = "seeded"
    /\ schema_info = _get_schema_info(db)
    /\ req = [r \in Requests |-> idle_request]
    /\ loop = 0
    /\ open_conns = 0
    /\ schema_reply = <<>>
    /\ health_reply = <<>>
    /\ once = <<>>
    /\ twice = <<>>
    /\ stage = "input"

\* the texts _extract_sql_query is applied to
InitExtract ==
    /\ InitFunction
    /\ \/ /\ text \in texts_of(MaxPieces)
          /\ inner = <<>>
       \/ \E pre \in Preambles, tag \in Tags, stmt \in Statements, post \in Postambles :
             /\ text = fenced(pre, tag, stmt, post)
             /\ inner = stmt
       \/ /\ text \in {<<"S", "E", "L", "E", "C", "T", " ">> \o e : e \in date_exprs(MaxDepth)}
          /\ inner = <<>>

\* line 119: sql_query = self._extract_sql_query(generated_text)
extract_once ==
    /\ stage = "input"
    /\ once' = _extract_sql_query(text)
    /\ stage' = "once"
    /\ UNCHANGED <<engine_vars, text, inner, twice>>

\* the extraction, applied to its own result
extract_twice ==
    /\ stage = "once"
    /\ twice' = _extract_sql_query(once)
    /\ stage' = "twice"
    /\ UNCHANGED <<engine_vars, text, inner, once>>

NextExtract == extract_once \/ extract_twice

SpecExtract == InitExtract /\ [][NextExtract]_vars

\* the statements the rewrite of lines 160-165 is applied to
InitRewrite ==
    /\ InitFunction
    /\ text \in {<<"S", "E", "L", "E", "C", "T", " ">> \o e : e \in date_exprs(MaxDepth)}
    /\ inner = <<>>

\* lines 160-165
rewrite_once ==
    /\ stage = "input"
    /\ once' = rewrite_date_functions(text)
    /\ stage' = "once"
    /\ UNCHANGED <<engine_vars, text, inner, twice>>

\* the rewrite, applied to its own result
rewrite_twice ==
    /\ stage = "once"
    /\ twice' = rewrite_date_functions(once)
    /\ stage' = "twice"
    /\ UNCHANGED <<engine_vars, text, inner, once>>

NextRewrite == rewrite_once \/ rewrite_twice

SpecRewrite == InitRewrite /\ [][NextRewrite]_vars

(***************************************************************************)
(* The properties.                                                         *)
(***************************************************************************)

\* the event e is in the log
has(log, e) == \E i \in 1..Len(log) : log[i] = e

\* how often the event e is in the log
count(log, e) == Cardinality({i \in 1..Len(log) : log[i] = e})

\* where the event e is first in the log
first(log, e) == least({i \in 1..Len(log) : log[i] = e})

\* the call has a candidate statement, and its guard is past the security check
guard_checked(r) ==
    /\ has(req[r].log, "post")
    /\ ~has(req[r].log, "generation_failed")
    /\ req[r].pc \notin {"connect", "check"}

\* the call's guard is over
guard_left(r) == req[r].pc \in {"explain", "except", "done"}

\* the candidate's trimmed, upper-cased text starts with SELECT
read_only(sql_query) ==
    LET kept == upper(strip(sql_query))
    IN  Len(kept) >= 6 /\ SubSeq(kept, 1, 6) = <<"S", "E", "L", "E", "C", "T">>

PolicyViolation ==
    HTTPException(400, <<"SQL execution failed: ", "Only SELECT queries are allowed">>)

\* C1 as amended: a candidate whose trimmed, upper-cased text does not start
\* with SELECT is rejected with a policy violation (a 400 error) and no
\* statement is sent to the database; the connection is opened before the
\* check and closed again with nothing executed on it.
C1_RejectedUnexecuted ==
    \A r \in Requests :
        (guard_checked(r) /\ ~read_only(req[r].sql_query)) =>
            /\ has(req[r].log, "reject")
            /\ ~has(req[r].log, "execute")
            /\ req[r].executed = <<>>
            /\ first(req[r].log, "connect") < first(req[r].log, "reject")
            /\ (req[r].pc \in {"guard_finally", "except"} => req[r].exc = PolicyViolation)
            /\ (guard_left(r) => has(req[r].log, "close") /\ ~req[r].conn)

\* C1 as claimed: such a candidate is rejected, nothing is sent, and the
\* connection has not been touched when it is rejected.
C1_AsClaimed ==
    \A r \in Requests :
        (guard_checked(r) /\ ~read_only(req[r].sql_query)) =>
            /\ has(req[r].log, "reject")
            /\ req[r].executed = <<>>
            /\ ~has(req[r].log, "connect")

C1_Witness ==
    \E r \in Requests :
        /\ req[r].sql_query = <<"D", "E", "L", "E", "T", "E", " ", "F", "R", "O", "M", " ", "c", "u", "s", "t", "o", "m", "e", "r", "s", ";", " ", "S", "E", "L", "E", "C", "T", " ", "1", ";">>
        /\ req[r].pc = "except"
        /\ req[r].exc = PolicyViolation
        /\ req[r].log = <<"post", "connect", "reject", "close">>

\* C2: when the candidate passes the read-only check and holds a ";", what
\* cursor.execute is given is the trimmed candidate's text before the first
\* ";", and nothing at or after it.
C2_OnlyFirstStatementSent ==
    \A r \in Requests :
        \A i \in 1..Len(req[r].executed) :
            LET candidate == strip(req[r].sql_query)
                semicolon == find(candidate, <<";">>, 1)
            IN  semicolon # 0 =>
                    /\ req[r].executed[i] = SubSeq(candidate, 1, semicolon - 1)
                    /\ \A k \in 1..Len(req[r].executed[i]) : req[r].executed[i][k] # ";"

C2_Witness ==
    \E r \in Requests :
        /\ req[r].sql_query = <<"s", "e", "l", "e", "c", "t", " ", "a", ";", " ", "D", "R", "O", "P", " ", "T", "A", "B", "L", "E", " ", "t", ";">>
        /\ req[r].executed = <<<<"s", "e", "l", "e", "c", "t", " ", "a">>>>

\* C3: every connection the guard opens is closed on every way out of the call
\* (result, policy rejection, database error): no connection is open when no
\* request is in flight, and only a call inside its guard holds one.
C3_ConnectionsClosed ==
    /\ loop = 0 => open_conns = 0
    /\ open_conns = Cardinality({r \in Requests : req[r].conn})
    /\ \A r \in Requests :
          /\ req[r].conn => req[r].pc \in {"check", "execute", "guard_except", "guard_finally"}
          /\ guard_left(r) =>
                count(req[r].log, "close") = count(req[r].log, "connect")

C3_Witness ==
    \E r \in Requests :
        /\ req[r].pc = "done"
        /\ req[r].log = <<"post", "connect", "execute", "db_error", "close", "raise">>
        /\ open_conns = 0

\* C4 as claimed: a request that fails by a policy rejection or by a database
\* rejection reaches the caller as a caller-input failure (status 400), and a
\* database rejection carries the database's message.
C4_AsClaimed ==
    \A r \in Requests :
        (req[r].pc = "done" /\ (has(req[r].log, "reject") \/ has(req[r].log, "db_error"))) =>
            /\ Len(req[r].raised) = 1
            /\ req[r].raised[1].status_code = 400
            /\ has(req[r].log, "db_error") =>
                  \E m \in DbErrors : has(req[r].raised[1].detail, m)

\* C5: a request posts to the completion service at most once; when that call
\* fails, the request ends as a server-side failure (status 500) and nothing
\* is executed against the database for it.
C5_NoRetryNoExecution ==
    \A r \in Requests :
        /\ count(req[r].log, "post") <= 1
        /\ has(req[r].log, "generation_failed") =>
              /\ req[r].executed = <<>>
              /\ ~has(req[r].log, "connect")
              /\ ~has(req[r].log, "execute")
              /\ req[r].response = <<>>
              /\ req[r].pc \in {"except", "done"}
              /\ req[r].pc = "done" =>
                    /\ Len(req[r].raised) = 1
                    /\ req[r].raised[1].status_code = 500

C5_Witness ==
    \E r \in Requests :
        /\ req[r].pc = "done"
        /\ req[r].log = <<"post", "generation_failed", "raise">>
        /\ req[r].raised = <<HTTPException(500, <<"500", ": ", "Failed to generate SQL query">>)>>

\* C6: a call ends with a QueryResponse of all five fields, its row_count the
\* length of its results, or with a raised error, never both and never
\* neither; a response comes only out of a pipeline whose every step
\* succeeded, and every failure ends in the error.
C6_ResponseOrError ==
    \A r \in Requests :
        /\ req[r].pc # "done" => req[r].response = <<>> /\ req[r].raised = <<>>
        /\ req[r].pc = "done" =>
              /\ Len(req[r].response) + Len(req[r].raised) = 1
              /\ req[r].response # <<>> =>
                    /\ DOMAIN req[r].response[1] =
                          {"sql_query", "results", "explanation", "row_count", "execution_time"}
                    /\ req[r].response[1].row_count = Len(req[r].response[1].results)
                    /\ req[r].response[1].results = req[r].results
                    /\ req[r].response[1].sql_query = req[r].sql_query
                    /\ req[r].response[1].explanation # <<>>
                    /\ req[r].response[1].execution_time >= 0
                    /\ req[r].log = <<"post", "connect", "execute", "fetch", "close", "return">>
              /\ (\E e \in {"generation_failed", "reject", "db_error"} : has(req[r].log, e)) =>
                    /\ req[r].response = <<>>
                    /\ req[r].raised # <<>>
                    /\ req[r].raised[1].type = "HTTPException"

C6_Witness ==
    \E r \in Requests :
        /\ req[r].pc = "done"
        /\ req[r].response # <<>>
        /\ req[r].response[1].row_count = MaxRows
        /\ Len(req[r].response[1].results) = MaxRows

\* C7 as claimed: the extraction, applied to its own result, gives that result.
C7_AsClaimed == stage = "twice" => twice = once

\* the statement's lines, each trimmed and joined by one space, its trailing
\* terminators collapsed to one
statement_text(stmt) ==
    LET lines == split(stmt, <<"\n">>)
    IN  collapse_semicolons(join(<<" ">>, [i \in 1..Len(lines) |-> strip(lines[i])]))

\* C8 as claimed: of a completion with a fenced block that holds one SELECT
\* statement, prose before and after it or not, the extraction is that
\* statement's text with its trailing terminators collapsed, and nothing else.
C8_AsClaimed == (stage # "input" /\ inner # <<>>) => once = statement_text(inner)

\* C9 as claimed: the date-function rewrite, applied to its own result, gives
\* that result, for nested and mixed-case calls as well.
C9_AsClaimed == stage = "twice" => twice = once

\* C10: schema_info is never changed after the engine's construction, whatever
\* is called and however the database changes, and every get_schema call
\* returns that one text.
C10_SchemaNeverChanges ==
    [][/\ schema_info' = schema_info
       /\ schema_reply' # <<>> => schema_reply'[1].schema = schema_info
       /\ (schema_reply # <<>> /\ schema_reply' # <<>>) => schema_reply' = schema_reply]_vars

C10_Witness ==
    /\ schema_reply = <<[schema |-> schema_info]>>
    /\ health_reply # <<>>
    /\ schema_info # _get_schema_info(db)
    /\ \E r \in Requests : req[r].pc = "done"

\* the names of the tables a schema description describes
described_tables(schema) ==
    {schema[i][2] : i \in {j \in 1..Len(schema) : schema[j][1] = "Table: "}}

\* a request is being served, or has been
serving ==
    \/ \E r \in Requests : req[r].pc # "idle"
    \/ schema_reply # <<>>
    \/ health_reply # <<>>

\* C11 as claimed: the service does not start over a database whose catalog
\* holds no table, so whenever a request is served the schema description
\* describes at least one table.
C11_AsClaimed == serving => described_tables(schema_info) # {}

\* the call is inside its completion call or its database call
suspended(r) == req[r].pc \in {"generate", "execute"}

\* C12 as claimed: while a process_query call is inside its completion call or
\* its database call, a second process_query, a get_schema and a health_check
\* can start.
C12_AsClaimed ==
    \A r \in Requests :
        suspended(r) =>
            /\ ENABLED get_schema
            /\ ENABLED health_check
            /\ \E other \in Requests \ {r} : ENABLED process_query_begin(other)

\* no line of the text, trimmed, starts with one of the five keywords
no_keyword_line(raw) ==
    LET lines == split(raw, <<"\n">>)
    IN  \A i \in 1..Len(lines) :
           \A k \in 1..Len(sql_keywords) :
              LET line == upper(strip(lines[i]))
                  word == sql_keywords[k]
              IN  ~(Len(line) >= Len(word) /\ SubSeq(line, 1, Len(word)) = word)

\* C13 as claimed: of a text with no line that starts with SELECT, WITH, INSERT,
\* UPDATE or DELETE, the extraction is the text with its leading and trailing
\* whitespace trimmed and nothing else changed, code fences included.
C13_AsClaimed == (stage # "input" /\ no_keyword_line(text)) => once = strip(text)

\* C14 as claimed: the explanation of every QueryResponse shows the statement
\* that was given to cursor.execute, also when the candidate was cut at a
\* terminator, and states as many rows as the response's results hold.
C14_AsClaimed ==
    \A r \in Requests :
        req[r].response # <<>> =>
            LET response == req[r].response[1]
            IN  /\ Len(req[r].executed) = 1
                /\ response.explanation[4] = req[r].executed[1]
                /\ response.explanation[7] = Len(response.results)

====
